---- MODULE Spec2Model ----
(***************************************************************************)
(* Model of odourcollect_utils.py: the filter pipeline that                *)
(* GenericOCData.OCFilterProvider runs over a pandas DataFrame when an     *)
(* OCObservationData / OCAnalysisData is constructed.                      *)
(*                                                                         *)
(* A DataFrame is a sequence of columns (order is the column order),       *)
(* a column is [name, dtype, cells], a cell is [k, s, n]: k is the kind    *)
(* of the value ("str", "date", "float", "int", "nat" for NaT/NaN), s its  *)
(* text (kinds str and date) and n its number (kinds float and int).       *)
(* Filters mutate the frame they are given in place, so the state holds    *)
(* one frame (data) and the runner's local variable data_frame is a        *)
(* reference: "ocdata" (that frame) or "None".                             *)
(***************************************************************************)
EXTENDS Integers, Sequences, FiniteSets, TLC

\* ------------------------------------------------------------------ bounds
NRows == 3          \* rows of a loaded table
MaxCols == 2        \* columns of a loaded table with free cell contents
MaxFilters == 2     \* length of a freely chosen filter list

\* ------------------------------------------------------------------- cells
Str(s) == [k |-> "str", s |-> s, n |-> 0]
Date(s) == [k |-> "date", s |-> s, n |-> 0]
Float(n) == [k |-> "float", s |-> "", n |-> n]
Int64(n) == [k |-> "int", s |-> "", n |-> n]
NaT == [k |-> "nat", s |-> "", n |-> 0]

Column(name, cells) == [name |-> name, dtype |-> "object", cells |-> cells]

\* `name in ocdata`
HasCol(ocdata, name) == \E p \in 1..Len(ocdata) : ocdata[p].name = name

\* number of columns of ocdata labelled name (ocdata[name] is a Series when 1,
\* a DataFrame when more)
Count(ocdata, name) == Cardinality({p \in 1..Len(ocdata) : ocdata[p].name = name})

\* results of a filter call: the frame as the call left it, the error it
\* raised ("none" when it returned) and the value it returned
Returned(ocdata, ret) == [table |-> ocdata, err |-> "none", ret |-> ret]
Raised(ocdata, err) == [table |-> ocdata, err |-> err, ret |-> "None"]

\* ---------------------------------------------------------------- fix_typos
\* DataFrame.rename(columns={old: new}, inplace=True): every column labelled
\* old is relabelled, nothing else changes
Rename(ocdata, old, new) ==
    [p \in 1..Len(ocdata) |->
        IF ocdata[p].name = old THEN [ocdata[p] EXCEPT !.name = new] ELSE ocdata[p]]

\* mutant: the day typo is corrected by exchanging the labels day and Day
fix_typos_swap(ocdata) ==
    LET a == IF HasCol(ocdata, "Intentity") THEN Rename(ocdata, "Intentity", "Intensity") ELSE ocdata
        b == IF HasCol(a, "day")
             THEN [p \in 1..Len(a) |->
                     IF a[p].name = "day" THEN [a[p] EXCEPT !.name = "Day"]
                     ELSE IF a[p].name = "Day" THEN [a[p] EXCEPT !.name = "day"]
                     ELSE a[p]]
             ELSE a
        c == IF HasCol(b, "time") THEN Rename(b, "time", "Time") ELSE b
    IN  Returned(c, "ocdata")

fix_typos(ocdata) ==
    LET a == IF HasCol(ocdata, "Intentity") THEN Rename(ocdata, "Intentity", "Intensity") ELSE ocdata
        b == IF HasCol(a, "day") THEN Rename(a, "day", "Day") ELSE a
        c == IF HasCol(b, "time") THEN Rename(b, "time", "Time") ELSE b
    IN  Returned(c, "ocdata")

\* -------------------------------------------------------------- fix_userids
\* len(ocdata.index): the index is the loader's and no filter touches it
RowCount(ocdata) == NRows

\* mutant: the scalar is stored in one row instead of every row
SetItemScalar_one_row(ocdata, name, s, rows) ==
    Append(ocdata, Column(name, <<Str(s)>>))

\* ocdata[name] = scalar: a new column is appended with the scalar in every
\* row; an existing one is overwritten
SetItemScalar(ocdata, name, s, rows) ==
    LET col == Column(name, [i \in 1..rows |-> Str(s)])
    IN  IF HasCol(ocdata, name)
        THEN [p \in 1..Len(ocdata) |-> IF ocdata[p].name = name THEN col ELSE ocdata[p]]
        ELSE Append(ocdata, col)

\* mutant: the test of fix_userids inverted
fix_userids_inverted(ocdata) ==
    IF HasCol(ocdata, "User")
    THEN Returned(SetItemScalar(ocdata, "User", "", RowCount(ocdata)), "ocdata")
    ELSE Returned(ocdata, "ocdata")

fix_userids(ocdata) ==
    IF ~HasCol(ocdata, "User")
    THEN Returned(SetItemScalar(ocdata, "User", "", RowCount(ocdata)), "ocdata")
    ELSE Returned(ocdata, "ocdata")

\* ------------------------------------------------ odour_literals_to_numbers
annoy_mapping ==
    ("Extremely unpleasant" :> "-4") @@ ("Very unpleasant" :> "-3") @@
    ("Unpleasant" :> "-2") @@ ("Slightly unpleasant" :> "-1") @@
    ("Neutral" :> "0") @@ ("Slightly pleasant" :> "1") @@ ("Pleasant" :> "2") @@
    ("Very pleasant" :> "3") @@ ("Extremely pleasant" :> "4") @@ ("" :> "0")

intensity_mapping ==
    ("Extremely strong" :> "6") @@ ("Very strong" :> "5") @@ ("Strong" :> "4") @@
    ("Distinct" :> "3") @@ ("Weak" :> "2") @@ ("Very weak" :> "1") @@
    ("Not perceptible" :> "0") @@ ("" :> "0")

duration_mapping ==
    ("Continuous odor throughout the day" :> "1 day 00:00:00") @@
    ("Continuous odor in the last hour" :> "01:00:00") @@
    ("Punctual odor" :> "00:05:00") @@ ("" :> "00:00:00")

bastard_tone_mapping ==
    ("Moderate unpleasant" :> "-3") @@ ("Moderate pleasant" :> "3") @@
    ("Extremely pleasan" :> "4")

intensity_and_annoy_mapping ==
    ("Intensity" :> intensity_mapping) @@ ("Annoy" :> annoy_mapping) @@
    ("Duration" :> duration_mapping)

\* Series.replace(keys, values): a cell equal to a key becomes that key's
\* value (whole-cell match, no regex); any other cell is kept
ReplaceCell(cell, mapping) ==
    IF cell.k = "str" /\ cell.s \in DOMAIN mapping THEN Str(mapping[cell.s]) ELSE cell

\* mutant: the substitution is not scoped by column, a column whose label is
\* no key of the nested dict is substituted by one of its mappings
ReplaceNested_every_column(ocdata, nested) ==
    [p \in 1..Len(ocdata) |->
        [ocdata[p] EXCEPT !.cells =
            [i \in DOMAIN ocdata[p].cells |->
                ReplaceCell(ocdata[p].cells[i],
                            IF ocdata[p].name \in DOMAIN nested THEN nested[ocdata[p].name]
                            ELSE nested[CHOOSE n \in DOMAIN nested : TRUE])]]]

\* DataFrame.replace({column: {key: value}}, inplace=True): column by
\* column, by position, for the columns whose label is a key of the nested dict
ReplaceNested(ocdata, nested) ==
    [p \in 1..Len(ocdata) |->
        IF ocdata[p].name \in DOMAIN nested
        THEN [ocdata[p] EXCEPT !.cells =
                [i \in DOMAIN ocdata[p].cells |->
                    ReplaceCell(ocdata[p].cells[i], nested[ocdata[p].name])]]
        ELSE ocdata[p]]

\* mutant: the second, Annoy-only substitution left out
odour_literals_to_numbers_main_only(ocdata) ==
    Returned(ReplaceNested(ocdata, intensity_and_annoy_mapping), "ocdata")

odour_literals_to_numbers(ocdata) ==
    LET a == ReplaceNested(ocdata, intensity_and_annoy_mapping)
        b == ReplaceNested(a, "Annoy" :> bastard_tone_mapping)
    IN  Returned(b, "ocdata")

\* ------------------------------------------------------- add_analyst_fields
analystextrafields ==
    <<"Typeoverride", "Subtypeoverride", "Intensityoverride", "Annoyoverride",
      "Analystcomments">>

\* the loop of add_analyst_fields from its j-th field on
RECURSIVE AddFieldsFrom(_, _)
AddFieldsFrom(ocdata, j) ==
    IF j > Len(analystextrafields) THEN Returned(ocdata, "ocdata")
    ELSE IF HasCol(ocdata, analystextrafields[j]) THEN Raised(ocdata, "SchemaConflict")
    ELSE CHOOSE res \in
            {AddFieldsFrom(t, j + 1) :
                t \in {SetItemScalar(ocdata, analystextrafields[j], "", RowCount(ocdata))}} :
            TRUE

\* mutant: an existing analyst column is overwritten instead of refused
RECURSIVE OverwriteFieldsFrom(_, _)
OverwriteFieldsFrom(ocdata, j) ==
    IF j > Len(analystextrafields) THEN Returned(ocdata, "ocdata")
    ELSE OverwriteFieldsFrom(
            SetItemScalar(ocdata, analystextrafields[j], "", RowCount(ocdata)), j + 1)
add_analyst_fields_overwrite(ocdata) == OverwriteFieldsFrom(ocdata, 1)

\* mutant: all five columns are checked before any is added
add_analyst_fields_check_first(ocdata) ==
    IF \E j \in 1..Len(analystextrafields) : HasCol(ocdata, analystextrafields[j])
    THEN Raised(ocdata, "SchemaConflict")
    ELSE AddFieldsFrom(ocdata, 1)

add_analyst_fields(ocdata) == AddFieldsFrom(ocdata, 1)

\* ------------------------------------------------------------- type_casting
category_types ==
    {"Type", "Subtype", "Zone", "Status", "Origin", "User", "Intensityoverride",
     "Annoyoverride", "Duration"}
datetime_types == {"Day"}
\* mutant: Duration left out of the duration list
timedelta_types_time_only == {"Time"}
timedelta_types == {"Time", "Duration"}
int_types == {"Intensity", "Annoy"}

\* pd.to_datetime on the texts of the model: the calendar date a text denotes
\* (written ISO); a text outside the table does not parse
date_literals ==
    ("2021-03-04" :> "2021-03-04") @@ ("04/03/2021" :> "2021-04-03")

\* pd.to_timedelta on the texts of the model: <<days, hours, minutes, seconds>>
\* of a "[d day ]HH:MM:SS" text; a text outside the table does not parse
timedelta_literals ==
    ("1 day 00:00:00" :> <<1, 0, 0, 0>>) @@ ("01:00:00" :> <<0, 1, 0, 0>>) @@
    ("00:05:00" :> <<0, 0, 5, 0>>) @@ ("00:00:00" :> <<0, 0, 0, 0>>) @@
    ("14:35:00" :> <<0, 14, 35, 0>>) @@ ("00:02:30" :> <<0, 0, 2, 30>>) @@
    ("00:03:30" :> <<0, 0, 3, 30>>)

TimedeltaSeconds(s) ==
    LET t == timedelta_literals[s] IN ((t[1] * 24 + t[2]) * 60 + t[3]) * 60 + t[4]

\* Series.round() of seconds / 60: to the nearest whole number, a half to the
\* even neighbour
RoundMinutes(seconds) ==
    LET q == seconds \div 60
        r == seconds % 60
    IN  IF r < 30 THEN q
        ELSE IF r > 30 THEN q + 1
        ELSE IF q % 2 = 0 THEN q ELSE q + 1

\* str.replace(' ', '') on the texts of the model that hold a space
space_literals ==
    ("Moderate unpleasant" :> "Moderateunpleasant") @@ ("Very strong" :> "Verystrong") @@
    ("Slightly unpleasant" :> "Slightlyunpleasant") @@ ("Extremely pleasan" :> "Extremelypleasan") @@
    ("Moderate pleasant" :> "Moderatepleasant") @@
    ("1 2" :> "12") @@ ("not known" :> "notknown")

StrReplaceSpace(s) == IF s \in DOMAIN space_literals THEN space_literals[s] ELSE s

\* int(text) on the texts of the model; a text outside the table raises ValueError
int_literals ==
    ("-4" :> -4) @@ ("-3" :> -3) @@ ("-2" :> -2) @@ ("-1" :> -1) @@ ("0" :> 0) @@
    ("1" :> 1) @@ ("2" :> 2) @@ ("3" :> 3) @@ ("4" :> 4) @@ ("5" :> 5) @@
    ("6" :> 6) @@ ("12" :> 12)

TheColumn(ocdata, name) == ocdata[CHOOSE p \in 1..Len(ocdata) : ocdata[p].name = name]

\* pd.to_datetime(cell)
DatetimeParses(c) ==
    \/ c.k \in {"date", "nat"}
    \/ c.k = "str" /\ (c.s = "" \/ c.s \in DOMAIN date_literals)
ToDatetimeCell(c) ==
    IF c.k = "str" THEN (IF c.s = "" THEN NaT ELSE Date(date_literals[c.s])) ELSE c

\* pd.to_timedelta(cell) / pd.Timedelta('60s'), then round(): a text is parsed,
\* a missing value stays missing, and a number is a count of nanoseconds (for
\* the numbers of the model, far less than half a minute: 0 minutes)
TimedeltaParses(c) ==
    \/ c.k \in {"float", "int", "nat"}
    \/ c.k = "str" /\ (c.s = "" \/ c.s \in DOMAIN timedelta_literals)
ToMinutesCell(c) ==
    CASE c.k = "str" /\ c.s = "" -> NaT
      [] c.k = "str" /\ c.s # "" -> Float(RoundMinutes(TimedeltaSeconds(c.s)))
      [] c.k \in {"float", "int"} -> Float(0)
      [] OTHER -> NaT

\* .str.replace(' ', ''), then .astype(str).astype(int)
StripCell(c) == IF c.k = "str" THEN Str(StrReplaceSpace(c.s)) ELSE c
IntParses(c) == c.k = "str" /\ c.s \in DOMAIN int_literals
ToIntCell(c) == Int64(int_literals[c.s])

\* one coercion of a cell, and whether the cell admits it
Coerce(how, c) ==
    CASE how = "datetime64" -> ToDatetimeCell(c)
      [] how = "float64" -> ToMinutesCell(c)
      [] how = "strip" -> StripCell(c)
      [] how = "int64" -> ToIntCell(c)
      [] OTHER -> c
Coerces(how, c) ==
    CASE how = "datetime64" -> DatetimeParses(c)
      [] how = "float64" -> TimedeltaParses(c)
      [] how = "int64" -> IntParses(c)
      [] OTHER -> TRUE
AllCoerce(col, how) == \A r \in DOMAIN col.cells : Coerces(how, col.cells[r])

\* ocdata[name] = <ocdata[name] coerced>; .astype('category') keeps the values
\* as the labels, .str.replace leaves an object column
SetColumn(ocdata, name, how) ==
    [p \in 1..Len(ocdata) |->
        IF ocdata[p].name = name
        THEN [ocdata[p] EXCEPT
                !.dtype = IF how = "strip" THEN "object" ELSE how,
                !.cells = [r \in DOMAIN ocdata[p].cells |-> Coerce(how, ocdata[p].cells[r])]]
        ELSE ocdata[p]]

\* the assignments the loop body makes for a column label, in the order of
\* its four `if` statements
Coercions(name) ==
    (IF name \in category_types THEN <<"category">> ELSE << >>)
      \o (IF name \in datetime_types THEN <<"datetime64">> ELSE << >>)
      \o (IF name \in timedelta_types THEN <<"float64">> ELSE << >>)
      \o (IF name \in int_types THEN <<"strip", "int64">> ELSE << >>)

\* what the right-hand side of an assignment raises, "none" when nothing.
\* ocdata[name] is a DataFrame when several columns carry the label: then
\* to_datetime raises ValueError, to_timedelta TypeError, and there is no
\* .str; .str also needs text values
CoercionError(ocdata, name, how) ==
    LET one == Count(ocdata, name) = 1
        col == TheColumn(ocdata, name)
    IN  CASE how = "datetime64" ->
                IF one /\ AllCoerce(col, how) THEN "none" ELSE "MalformedDate"
          [] how = "float64" ->
                IF ~one THEN "TypeError"
                ELSE IF AllCoerce(col, how) THEN "none" ELSE "MalformedDuration"
          [] how = "strip" ->
                IF one /\ col.dtype \in {"object", "category"} THEN "none"
                ELSE "AttributeError"
          [] how = "int64" -> IF AllCoerce(col, how) THEN "none" ELSE "MalformedInteger"
          [] OTHER -> "none"

\* the body of type_casting's loop for one column label, from its k-th
\* assignment on: each is made on the frame before the next is computed
RECURSIVE CastColumn(_, _, _)
CastColumn(ocdata, name, k) ==
    IF k > Len(Coercions(name)) THEN Returned(ocdata, "None")
    ELSE CHOOSE res \in
            {IF e # "none" THEN Raised(ocdata, e)
             ELSE CastColumn(SetColumn(ocdata, name, Coercions(name)[k]), name, k + 1) :
                e \in {CoercionError(ocdata, name, Coercions(name)[k])}} : TRUE

\* `for column in ocdata:` from position p on
RECURSIVE CastFrom(_, _)
CastFrom(ocdata, p) ==
    IF p > Len(ocdata) THEN Returned(ocdata, "None")
    ELSE CHOOSE res \in
            {IF r.err # "none" THEN r ELSE CastFrom(r.table, p + 1) :
                r \in {CastColumn(ocdata, ocdata[p].name, 1)}} : TRUE

\* the function ends without a return statement: it returns None
type_casting(ocdata) == CastFrom(ocdata, 1)

\* ------------------------------------------------- OCFilterProvider.__init__
\* dir(self) when __init__ starts: the members of the class (no instance
\* attribute is set yet), and which of them start with an underscore
dir_self ==
    {"__class__", "__dict__", "__doc__", "__init__", "__module__", "__run__",
     "__weakref__", "add_analyst_fields", "fix_typos", "fix_userids",
     "odour_literals_to_numbers", "type_casting"}
StartsWithUnderscore(f) ==
    f \in {"__class__", "__dict__", "__doc__", "__init__", "__module__", "__run__",
           "__weakref__"}
AVAILABLE == {f \in dir_self : ~StartsWithUnderscore(f)}

\* the filter names the text of the ValueError holds: str(self.AVAILABLE)
UnknownFilterMessage(requested) == AVAILABLE

\* ------------------------------------------------------------------ profiles
\* mutant: the Observation profile corrects the typos after the recoding
ObservationFilters_typos_late ==
    <<"fix_userids", "odour_literals_to_numbers", "fix_typos", "add_analyst_fields",
      "type_casting">>

ObservationFilters ==
    <<"fix_typos", "fix_userids", "odour_literals_to_numbers", "add_analyst_fields",
      "type_casting">>
AnalysisFilters == <<"type_casting">>

\* ------------------------------------------------------------- loaded tables
\* the texts a loaded column may hold, by column label
Vocab(name) ==
    CASE name = "Intensity" -> <<"Weak", "Very strong", "", "1 2", "Moderate unpleasant">>
      [] name = "Intentity" -> <<"Weak", "Moderate unpleasant">>
      [] name = "Annoy" ->
            <<"Slightly unpleasant", "Moderate unpleasant", "", "not known">>
      [] name = "Duration" ->
            <<"Punctual odor", "Continuous odor throughout the day", "",
              "Moderate unpleasant">>
      [] name = "Day" -> <<"2021-03-04", "04/03/2021", "", "yesterday">>
      [] name = "day" -> <<"2021-03-04", "yesterday">>
      [] name = "Time" -> <<"14:35:00", "00:02:30", "00:03:30", "", "noon">>
      [] name = "time" -> <<"14:35:00", "noon">>
      [] name = "User" -> <<"u1", "">>
      [] name = "Analystcomments" -> <<"checked">>
      [] name = "Typeoverride" -> <<"">>
      [] OTHER -> <<"Weak", "">>

ColumnNames ==
    {"Intentity", "Intensity", "Annoy", "Duration", "day", "Day", "time", "Time",
     "User", "Analystcomments", "Typeoverride", "Comments"}
\* the labels of the tables that any filter list is run on
PlainColumnNames ==
    {"Intentity", "Intensity", "Annoy", "Duration", "day", "Day", "User",
     "Analystcomments"}

\* the cells of a loaded column: NRows consecutive texts of its vocabulary,
\* starting at the k-th
LoadedCells(name, k) ==
    [i \in 1..NRows |-> Str(Vocab(name)[((k + i - 2) % Len(Vocab(name))) + 1])]

Catalogue ==
    UNION {{Column(name, LoadedCells(name, k)) : k \in 1..Len(Vocab(name))} :
            name \in ColumnNames}
PlainCatalogue == {Column(name, LoadedCells(name, 1)) : name \in PlainColumnNames}

\* read_csv / read_excel with dtype=object: text cells, distinct column labels
LoadedTables(catalogue) ==
    UNION {{t \in [1..m -> catalogue] :
              \A p, q \in 1..m : p # q => t[p].name # t[q].name} : m \in 1..MaxCols}

FilterNames == AVAILABLE \cup {"bogus_filter"}
\* the two profiles and every single filter
ProfileLists ==
    {ObservationFilters, AnalysisFilters} \cup {<<f>> : f \in FilterNames}
\* every list of at most MaxFilters names
FilterLists == UNION {[1..m -> FilterNames] : m \in 0..MaxFilters}

\* ---------------------------------------------------------------- os.path
\* a path or a type hint is the sequence of its characters
\* p.rfind(ch), counted from 1, 0 when ch is not in p
rfind(p, ch) ==
    IF \E k \in 1..Len(p) : p[k] = ch
    THEN CHOOSE k \in 1..Len(p) : p[k] = ch /\ \A j \in (k + 1)..Len(p) : p[j] # ch
    ELSE 0

\* os.path.splitext(p): <<root, ext>>; the extension starts at the last dot
\* of the last path component, leading dots of the component not counting
splitext(p) ==
    IF /\ rfind(p, ".") > rfind(p, "/")
       /\ \E k \in (rfind(p, "/") + 1)..(rfind(p, ".") - 1) : p[k] # "."
    THEN <<SubSeq(p, 1, rfind(p, ".") - 1), SubSeq(p, rfind(p, "."), Len(p))>>
    ELSE <<p, <<>>>>

\* os.path.basename(p)
basename(p) == SubSeq(p, rfind(p, "/") + 1, Len(p))

\* s.split('.', -1)
RECURSIVE split(_)
split(s) ==
    IF \E k \in 1..Len(s) : s[k] = "."
    THEN LET k == CHOOSE j \in 1..Len(s) : s[j] = "." /\ \A h \in 1..(j - 1) : s[h] # "."
         IN  <<SubSeq(s, 1, k - 1)>> \o split(SubSeq(s, k + 1, Len(s)))
    ELSE <<s>>

auto == <<"a", "u", "t", "o">>
csv == <<"c", "s", "v">>
xlsx == <<"x", "l", "s", "x">>
xls == <<"x", "l", "s">>
conf == <<"c", "o", "n", "f">>

\* '%s.%s' % (root, ext)
Dot(root, ext) == root \o <<".">> \o ext

\* file names handed to the datasets
FileNames ==
    LET obs == <<"o", "b", "s">>
    IN  {obs, Dot(obs, csv), Dot(obs, xlsx), Dot(obs, xls), Dot(obs, <<"t", "x", "t">>),
         Dot(obs, <<"C", "S", "V">>), Dot(Dot(obs, xls), csv), Dot(<<>>, csv),
         Dot(obs, <<>>), <<"a", ".", "b", "/">> \o obs}

\* file_type arguments
Hints == {auto, csv, xlsx, xls, <<"t", "x", "t">>, <<"C", "S", "V">>, <<>>}

\* ------------------------------------------------------------- OCMapConfig
\* the names (without .conf) the folder may hold a file for
ConfStems == {<<"m", "a", "p">>, <<"o", "l", "d">>}

\* what conf_files holds for a name the folder has no file for
Absent == "no such file"

\* contents of .conf files
ConfContents ==
    {"{'version': 'v1'}", "{}", "[1, 2]", "42", "None", "dict(version='v1')",
     "{'version': v1}", "{'version': 1/0}", "{[1]: 2}", "{'version': 'v1'", "",
     "version = 'v1'"}

\* eval(conf_contents): the type of the value returned, or the exception raised
eval(conf_contents) ==
    CASE conf_contents \in {"{'version': 'v1'}", "{}", "dict(version='v1')"} ->
            [err |-> "none", type |-> "dict"]
      [] conf_contents = "[1, 2]" -> [err |-> "none", type |-> "list"]
      [] conf_contents = "42" -> [err |-> "none", type |-> "int"]
      [] conf_contents = "None" -> [err |-> "none", type |-> "NoneType"]
      [] conf_contents = "{'version': v1}" -> [err |-> "NameError", type |-> "none"]
      [] conf_contents = "{'version': 1/0}" -> [err |-> "ZeroDivisionError", type |-> "none"]
      [] conf_contents = "{[1]: 2}" -> [err |-> "TypeError", type |-> "none"]
      [] OTHER -> [err |-> "SyntaxError", type |-> "none"]

\* arguments of get
ConfNames ==
    {<<"m", "a", "p">>, Dot(<<"m", "a", "p">>, conf), <<".", ".", "/", "m", "a", "p">>,
     <<"d", "/">> \o Dot(<<"o", "l", "d">>, <<"j", "s">>), <<"n", "e", "w">>, <<>>}

\* --------------------------------------------------------------------- state
VARIABLES
    data,         \* the dataset's DataFrame (self.data), mutated in place
    loaded,       \* the DataFrame as the loader produced it
    filter_list,  \* the list handed to OCFilterProvider
    pc,           \* "init", "run" (in __run__'s loop), "done", "raised"
    i,            \* filters of the list already run
    data_frame,   \* __run__'s local variable: "ocdata" or "None"
    err,          \* the error the construction ended with, or "none"
    msg,          \* the filter names the error's message holds
    pre,          \* the DataFrame when the last filter started
    last,         \* the last filter started, or "" when none
    given,        \* what the last filter was handed: "ocdata" or "None"
    file_name,    \* GenericOCData's file_name argument
    hint,         \* GenericOCData's file_type argument
    file_type,    \* self.file_type
    reads,        \* the pandas reader called: "none", "read_csv", "read_excel"
    conf_files,   \* the .conf files of the folder: name without .conf -> contents
    conf_name,    \* OCMapConfig.get's argument
    conf_out      \* the type of the value get returned, or "none"

loaderVars == <<file_name, hint, file_type, reads>>
confVars == <<conf_files, conf_name, conf_out>>
vars ==
    <<data, loaded, filter_list, pc, i, data_frame, err, msg, pre, last, given,
      file_name, hint, file_type, reads, conf_files, conf_name, conf_out>>

\* GenericOCData.__init__ has read observations.csv, its type detected
LoadedCsv ==
    /\ file_name = Dot(<<"o", "b", "s">>, csv)
    /\ hint = auto
    /\ file_type = csv
    /\ reads = "read_csv"

\* no map configuration is being loaded
NoMapConfig ==
    /\ conf_files = [stem \in ConfStems |-> Absent]
    /\ conf_name = <<>>
    /\ conf_out = "none"

Init ==
    \* a profile or a single filter on a table of any cell contents, or any
    \* filter list on a table of first-variant columns
    /\ \/ loaded \in LoadedTables(Catalogue) /\ filter_list \in ProfileLists
       \/ loaded \in LoadedTables(PlainCatalogue) /\ filter_list \in FilterLists
    /\ data = loaded
    /\ pc = "init"
    /\ i = 0
    /\ data_frame = "ocdata"
    /\ err = "none"
    /\ msg = {}
    /\ pre = loaded
    /\ last = ""
    /\ given = ""
    /\ LoadedCsv
    /\ NoMapConfig

\* mutant: only the first name of the list is validated
ProviderInit_first_only ==
    /\ pc = "init"
    /\ IF Len(filter_list) > 0 /\ filter_list[1] \notin AVAILABLE
       THEN /\ pc' = "raised"
            /\ err' = "UnknownFilter"
            /\ msg' = UnknownFilterMessage(filter_list)
       ELSE /\ pc' = "run"
            /\ UNCHANGED <<err, msg>>
    /\ UNCHANGED <<data, loaded, filter_list, i, data_frame, pre, last, given>>
    /\ UNCHANGED <<loaderVars, confVars>>

\* OCFilterProvider.__init__ up to the call of __run__
ProviderInit ==
    /\ pc = "init"
    /\ IF ~({filter_list[j] : j \in 1..Len(filter_list)} \subseteq AVAILABLE)
       THEN /\ pc' = "raised"
            /\ err' = "UnknownFilter"
            /\ msg' = UnknownFilterMessage(filter_list)
       ELSE /\ pc' = "run"
            /\ UNCHANGED <<err, msg>>
    /\ UNCHANGED <<data, loaded, filter_list, i, data_frame, pre, last, given>>
    /\ UNCHANGED <<loaderVars, confVars>>

\* what a filter raises when it is handed None instead of a DataFrame
NoneError(name) ==
    IF name = "odour_literals_to_numbers" THEN "AttributeError" ELSE "TypeError"

\* __run__'s loop is at a turn for the filter called name
Turn(name) ==
    /\ pc = "run"
    /\ i < Len(filter_list)
    /\ filter_list[i + 1] = name

\* mutant: the filter works on a copy, the dataset's frame stays as loaded
Call_on_copy(name, result) ==
    \E res \in {result} :
        /\ pre' = data
        /\ last' = name
        /\ given' = data_frame
        /\ data' = data
        /\ IF res.err = "none"
           THEN /\ data_frame' = res.ret
                /\ i' = i + 1
                /\ UNCHANGED <<pc, err>>
           ELSE /\ pc' = "raised"
                /\ err' = res.err
                /\ UNCHANGED <<data_frame, i>>
        /\ UNCHANGED <<loaded, filter_list, msg, loaderVars, confVars>>

\* data_frame = getattr(self, data_filter)(data_frame), the call having the
\* result res: the frame is left as the filter left it, and the loop goes on
\* with the value returned or ends with the error raised
Call(name, result) ==
    \E res \in {result} :
        /\ pre' = data
        /\ last' = name
        /\ given' = data_frame
        /\ data' = res.table
        /\ IF res.err = "none"
           THEN /\ data_frame' = res.ret
                /\ i' = i + 1
                /\ UNCHANGED <<pc, err>>
           ELSE /\ pc' = "raised"
                /\ err' = res.err
                /\ UNCHANGED <<data_frame, i>>
        /\ UNCHANGED <<loaded, filter_list, msg, loaderVars, confVars>>

Run_fix_typos ==
    /\ Turn("fix_typos")
    /\ Call("fix_typos",
            IF data_frame = "None" THEN Raised(data, NoneError("fix_typos"))
            ELSE fix_typos(data))

Run_fix_userids ==
    /\ Turn("fix_userids")
    /\ Call("fix_userids",
            IF data_frame = "None" THEN Raised(data, NoneError("fix_userids"))
            ELSE fix_userids(data))

Run_odour_literals_to_numbers ==
    /\ Turn("odour_literals_to_numbers")
    /\ Call("odour_literals_to_numbers",
            IF data_frame = "None" THEN Raised(data, NoneError("odour_literals_to_numbers"))
            ELSE odour_literals_to_numbers(data))

Run_add_analyst_fields ==
    /\ Turn("add_analyst_fields")
    /\ Call("add_analyst_fields",
            IF data_frame = "None" THEN Raised(data, NoneError("add_analyst_fields"))
            ELSE add_analyst_fields(data))

Run_type_casting ==
    /\ Turn("type_casting")
    /\ Call("type_casting",
            IF data_frame = "None" THEN Raised(data, NoneError("type_casting"))
            ELSE type_casting(data))

\* the loop of __run__ ends: 'Filter execution went OK', return data_frame
RunReturn ==
    /\ pc = "run"
    /\ i = Len(filter_list)
    /\ pc' = "done"
    /\ UNCHANGED <<data, loaded, filter_list, i, data_frame, err, msg, pre, last, given>>
    /\ UNCHANGED <<loaderVars, confVars>>

Next ==
    \/ ProviderInit
    \/ Run_fix_typos
    \/ Run_fix_userids
    \/ Run_odour_literals_to_numbers
    \/ Run_add_analyst_fields
    \/ Run_type_casting
    \/ RunReturn

Spec == Init /\ [][Next]_vars

\* ----------------------------------------------- the literal columns alone
\* every text the literal mappings name, and one they do not, by column label
LiteralVocab(name) ==
    CASE name = "Annoy" ->
            <<"Slightly unpleasant", "Moderate unpleasant", "", "Extremely pleasan",
              "Moderate pleasant", "Extremely unpleasant", "Very unpleasant",
              "Unpleasant", "Neutral", "Slightly pleasant", "Pleasant", "Very pleasant",
              "Extremely pleasant", "not known">>
      [] name \in {"Intensity", "Intentity"} ->
            <<"Not perceptible", "Very weak", "Weak", "Distinct", "Strong", "Very strong",
              "Extremely strong", "", "Moderate unpleasant", "Moderate pleasant",
              "Extremely pleasan">>
      [] name = "Duration" ->
            <<"Punctual odor", "Continuous odor throughout the day",
              "Continuous odor in the last hour", "", "Moderate unpleasant",
              "Moderate pleasant", "Extremely pleasan">>
      [] name = "Time" -> Vocab("Time")
      [] OTHER -> <<"Weak", "", "Moderate unpleasant", "Punctual odor", "Neutral">>

LiteralColumnNames == {"Annoy", "Intensity", "Intentity", "Duration", "Time", "Comments"}

LiteralCells(name, k) ==
    [r \in 1..NRows |-> Str(LiteralVocab(name)[((k + r - 2) % Len(LiteralVocab(name))) + 1])]

LiteralCatalogue ==
    UNION {{Column(name, LiteralCells(name, k)) : k \in 1..Len(LiteralVocab(name))} :
            name \in LiteralColumnNames}

\* the recoding filter alone, followed by type_casting, and the two profiles
LiteralLists ==
    {<<"odour_literals_to_numbers">>, <<"odour_literals_to_numbers", "type_casting">>,
     ObservationFilters, AnalysisFilters}

InitLiterals ==
    /\ loaded \in LoadedTables(LiteralCatalogue)
    /\ filter_list \in LiteralLists
    /\ data = loaded
    /\ pc = "init"
    /\ i = 0
    /\ data_frame = "ocdata"
    /\ err = "none"
    /\ msg = {}
    /\ pre = loaded
    /\ last = ""
    /\ given = ""
    /\ LoadedCsv
    /\ NoMapConfig

SpecLiterals == InitLiterals /\ [][Next]_vars

\* ------------------------------------------- the Analysis profile run again
\* the tables type_casting has fully typed: what a completed run of
\* type_casting leaves of a loaded table
TypedTables ==
    {type_casting(t).table :
        t \in {u \in LoadedTables(Catalogue) : type_casting(u).err = "none"}}

\* OCFilterProvider(data, ['type_casting']) over a typed table
InitRoundTrip ==
    /\ loaded \in TypedTables
    /\ filter_list = AnalysisFilters
    /\ data = loaded
    /\ pc = "init"
    /\ i = 0
    /\ data_frame = "ocdata"
    /\ err = "none"
    /\ msg = {}
    /\ pre = loaded
    /\ last = ""
    /\ given = ""
    /\ LoadedCsv
    /\ NoMapConfig

NextRoundTrip ==
    \/ ProviderInit
    \/ Run_type_casting
    \/ RunReturn

SpecRoundTrip == InitRoundTrip /\ [][NextRoundTrip]_vars

\* ------------------------------------------------------- fix_typos twice
\* the labels fix_typos looks for and the labels it gives
typo_labels == <<"Intentity", "Intensity", "day", "Day", "time", "Time">>

Range(q) == {q[p] : p \in 1..Len(q)}
Reverse(q) == [p \in 1..Len(q) |-> q[Len(q) + 1 - p]]

\* the table holding the columns labelled by names, in the order of labels
TableOf(labels, names) ==
    LET present == SelectSeq(labels, LAMBDA n : n \in names)
    IN  [p \in 1..Len(present) |-> Column(present[p], LoadedCells(present[p], 1))]

\* every subset of the labels, in two column orders
TypoTables ==
    {TableOf(typo_labels, names) : names \in SUBSET Range(typo_labels)}
        \cup {TableOf(Reverse(typo_labels), names) : names \in SUBSET Range(typo_labels)}

InitTypos ==
    /\ loaded \in TypoTables
    /\ filter_list = <<"fix_typos", "fix_typos">>
    /\ data = loaded
    /\ pc = "init"
    /\ i = 0
    /\ data_frame = "ocdata"
    /\ err = "none"
    /\ msg = {}
    /\ pre = loaded
    /\ last = ""
    /\ given = ""
    /\ LoadedCsv
    /\ NoMapConfig

NextTypos ==
    \/ ProviderInit
    \/ Run_fix_typos
    \/ RunReturn

SpecTypos == InitTypos /\ [][NextTypos]_vars

\* ------------------------------------------------- construction from a file
\* GenericOCData.__init__: the type is detected when the hint is 'auto', the
\* file is read by the reader of its type, any other type is refused
GenericInit ==
    /\ pc = "load"
    /\ \E detected \in {IF hint = auto THEN split(splitext(file_name)[2])
                        ELSE <<<<>>, hint>>} :
          IF Len(detected) < 2
          THEN /\ pc' = "raised"
               /\ err' = "IndexError"
               /\ UNCHANGED <<file_type, reads, data>>
          ELSE /\ file_type' = detected[2]
               /\ IF detected[2] = csv
                  THEN /\ reads' = "read_csv"
                       /\ data' = loaded
                       /\ pc' = "init"
                       /\ UNCHANGED err
                  ELSE IF detected[2] = xlsx \/ detected[2] = xls
                  THEN /\ reads' = "read_excel"
                       /\ data' = loaded
                       /\ pc' = "init"
                       /\ UNCHANGED err
                  ELSE /\ pc' = "raised"
                       /\ err' = "UnsupportedFormat"
                       /\ UNCHANGED <<reads, data>>
    /\ UNCHANGED <<loaded, filter_list, i, data_frame, msg, pre, last, given>>
    /\ UNCHANGED <<file_name, hint, confVars>>

\* OCObservationData(file_name, file_type) or OCAnalysisData(file_name,
\* file_type) is called, the file holding the table loaded
InitLoad ==
    /\ loaded \in LoadedTables(PlainCatalogue)
    /\ filter_list \in {ObservationFilters, AnalysisFilters}
    /\ file_name \in FileNames
    /\ hint \in Hints
    /\ file_type = hint
    /\ reads = "none"
    /\ data = <<>>
    /\ pc = "load"
    /\ i = 0
    /\ data_frame = "ocdata"
    /\ err = "none"
    /\ msg = {}
    /\ pre = loaded
    /\ last = ""
    /\ given = ""
    /\ NoMapConfig

NextLoad ==
    \/ GenericInit
    \/ ProviderInit
    \/ Run_fix_typos
    \/ Run_fix_userids
    \/ Run_odour_literals_to_numbers
    \/ Run_add_analyst_fields
    \/ Run_type_casting
    \/ RunReturn

SpecLoad == InitLoad /\ [][NextLoad]_vars

\* ------------------------------------------------------ OCMapConfig.get
get ==
    /\ pc = "get"
    /\ \E stem \in {splitext(basename(conf_name))[1]} :
          IF stem \in DOMAIN conf_files /\ conf_files[stem] # Absent
          THEN \E res \in {eval(conf_files[stem])} :
                  IF res.err = "none"
                  THEN /\ pc' = "done"
                       /\ conf_out' = res.type
                       /\ UNCHANGED err
                  ELSE /\ pc' = "raised"
                       /\ err' = IF res.err = "SyntaxError" THEN "ConfigMalformed"
                                 ELSE res.err
                       /\ UNCHANGED conf_out
          ELSE /\ pc' = "raised"
               /\ err' = "ConfigNotFound"
               /\ UNCHANGED conf_out
    /\ UNCHANGED <<data, loaded, filter_list, i, data_frame, msg, pre, last, given>>
    /\ UNCHANGED <<loaderVars, conf_files, conf_name>>

\* an OCMapConfig over a folder of .conf files, get about to be called
InitConf ==
    /\ conf_files \in [ConfStems -> ConfContents \cup {Absent}]
    /\ conf_name \in ConfNames
    /\ conf_out = "none"
    /\ pc = "get"
    /\ loaded = <<>>
    /\ data = <<>>
    /\ filter_list = <<>>
    /\ i = 0
    /\ data_frame = "ocdata"
    /\ err = "none"
    /\ msg = {}
    /\ pre = <<>>
    /\ last = ""
    /\ given = ""
    /\ file_name = <<>>
    /\ hint = auto
    /\ file_type = auto
    /\ reads = "none"

NextConf == get

SpecConf == InitConf /\ [][NextConf]_vars

\* ==================================================================== claims
Requested == {filter_list[j] : j \in 1..Len(filter_list)}
FiveFilters ==
    {"fix_typos", "fix_userids", "odour_literals_to_numbers", "add_analyst_fields",
     "type_casting"}
DefinedErrors == {"SchemaConflict", "MalformedDate", "MalformedInteger", "MalformedDuration"}
\* the last filter started was handed a DataFrame
RanOnTable(name) == last = name /\ given = "ocdata"
AllEmptyText(col) == \A r \in DOMAIN col.cells : col.cells[r] = Str("")

\* C1 (as claimed): every filter the runner starts is handed the table the
\* filter before it produced (the first one the loaded table), also a filter
\* placed after type_casting.
C1_EachFilterReceivesTable == last # "" => given = "ocdata"

\* C2 (as claimed): a filter list with a name outside the registry fails with
\* UnknownFilter, and the error names every offending entry and lists exactly
\* the five available filters.
C2_UnknownFilterNamesOffenders ==
    LET offending == Requested \ FiveFilters
    IN  (pc # "init" /\ offending # {}) =>
            /\ err = "UnknownFilter"
            /\ offending \subseteq msg
            /\ msg \ offending = FiveFilters

\* C3: add_analyst_fields run on a table that already has a column
\* Analystcomments fails with SchemaConflict, and every column the table had
\* before the call is still there, at its place, with its name and values.
C3_SchemaConflictKeepsColumns ==
    (RanOnTable("add_analyst_fields") /\ HasCol(pre, "Analystcomments")) =>
        /\ pc = "raised"
        /\ err = "SchemaConflict"
        /\ Len(data) >= Len(pre)
        /\ \A p \in 1..Len(pre) : data[p] = pre[p]

C3_Witness ==
    /\ RanOnTable("add_analyst_fields")
    /\ HasCol(pre, "Analystcomments")
    /\ err = "SchemaConflict"
    /\ Len(data) > Len(pre)

\* C4 (as claimed): whenever a filter raises, the table is identical to the
\* table as it was when that filter started.
C4_NoPartialCommit ==
    (pc = "raised" /\ last # "" /\ given = "ocdata") => data = pre

\* the first analyst column, in the order of the filter's list, that the table has
FirstConflict(ocdata) ==
    CHOOSE j \in 1..Len(analystextrafields) :
        /\ HasCol(ocdata, analystextrafields[j])
        /\ \A h \in 1..(j - 1) : ~HasCol(ocdata, analystextrafields[h])

\* column p of ocdata holds a value its coercion rejects, or shares its label
\* with another column to coerce
Rejects(ocdata, p) ==
    LET col == ocdata[p]
    IN  \/ /\ col.name \in datetime_types \cup timedelta_types \cup int_types
           /\ Count(ocdata, col.name) > 1
        \/ col.name \in datetime_types /\ ~AllCoerce(col, "datetime64")
        \/ col.name \in timedelta_types /\ ~AllCoerce(col, "float64")
        \/ col.name \in int_types
             /\ \E r \in DOMAIN col.cells : ~IntParses(StripCell(col.cells[r]))

CastDtype(name) ==
    IF name \in timedelta_types THEN "float64"
    ELSE IF name \in datetime_types THEN "datetime64"
    ELSE IF name \in int_types THEN "int64"
    ELSE IF name \in category_types THEN "category"
    ELSE "object"

\* C4 (amended): a filter that raises leaves the partial state it reached.
\* Only add_analyst_fields and type_casting raise on a table.
\* add_analyst_fields raises SchemaConflict with every earlier column
\* untouched and the analyst columns listed before the first pre-existing
\* one already appended; type_casting raises with the columns' names and
\* order as before, every column before the first rejected one already cast,
\* the rejected one not cast to its final type, and every later one untouched.
C4_PartialStateOnRaise ==
    (pc = "raised" /\ last # "" /\ given = "ocdata") =>
        /\ last \in {"add_analyst_fields", "type_casting"}
        /\ last = "add_analyst_fields" =>
              LET k == FirstConflict(pre)
              IN  /\ err = "SchemaConflict"
                  /\ Len(data) = Len(pre) + k - 1
                  /\ \A p \in 1..Len(pre) : data[p] = pre[p]
                  /\ \A j \in 1..(k - 1) :
                        /\ data[Len(pre) + j].name = analystextrafields[j]
                        /\ AllEmptyText(data[Len(pre) + j])
        /\ last = "type_casting" =>
              /\ err # "SchemaConflict"
              /\ Len(data) = Len(pre)
              /\ \A p \in 1..Len(pre) : data[p].name = pre[p].name
              /\ \E f \in 1..Len(pre) :
                    /\ Rejects(pre, f)
                    /\ \A p \in 1..(f - 1) :
                          ~Rejects(pre, p) /\ data[p].dtype = CastDtype(pre[p].name)
                    /\ data[f].dtype \in {"object", "category"}
                    /\ \A p \in (f + 1)..Len(pre) : data[p] = pre[p]

C4_Witness ==
    /\ pc = "raised"
    /\ given = "ocdata"
    /\ last = "type_casting"
    /\ Len(data) = 2
    /\ data[1] # pre[1]
    /\ data[2].dtype = "object"

\* C5 (as claimed): a filter run on a table either returns a table with the
\* same row count or raises one of SchemaConflict, MalformedDate,
\* MalformedInteger, MalformedDuration; it never returns a non-table value and
\* never raises anything else.
C5_FilterReturnsTableOrRaises ==
    (last # "" /\ given = "ocdata") =>
        IF err = "none"
        THEN /\ data_frame = "ocdata"
             /\ \A p \in 1..Len(data) : Len(data[p].cells) = NRows
        ELSE err \in DefinedErrors

\* what a loaded cell can have become: recoded by a literal mapping, corrected
\* by the Annoy-only mapping, stripped of spaces, coerced
CellImages(c0) ==
    LET recoded == {c0} \cup {ReplaceCell(c0, intensity_and_annoy_mapping[n]) :
                                n \in DOMAIN intensity_and_annoy_mapping}
        fixed == recoded \cup {ReplaceCell(c, bastard_tone_mapping) : c \in recoded}
        stripped == fixed \cup {StripCell(c) : c \in fixed}
    IN  stripped \cup UNION {{Coerce(how, c) : c \in {x \in stripped : Coerces(how, x)}} :
                              how \in {"datetime64", "float64", "int64"}}

\* C6: in every reachable state, also one a raising filter left, the table has
\* the loaded table's rows: every column has NRows cells, a loaded column is
\* still at its place with each row holding an image of that row's loaded
\* cell, and an added column holds the empty text in every row.
C6_RowsPreserved ==
    /\ Len(data) >= Len(loaded)
    /\ \A p \in 1..Len(data) : Len(data[p].cells) = NRows
    /\ \A p \in 1..Len(loaded) : \A r \in 1..NRows :
          \/ data[p].cells[r] = loaded[p].cells[r]
          \/ data[p].cells[r] \in CellImages(loaded[p].cells[r])
    /\ \A p \in (Len(loaded) + 1)..Len(data) : AllEmptyText(data[p])

C6_Witness ==
    /\ pc = "done"
    /\ Len(filter_list) = 2
    /\ Len(loaded) = 2
    /\ Len(data) > Len(loaded)
    /\ \E p \in 1..Len(loaded) : data[p].cells # loaded[p].cells

\* C7 (as claimed): no two columns of the table have the same name, in any
\* reachable state.
C7_UniqueColumnNames ==
    \A p, q \in 1..Len(data) : p # q => data[p].name # data[q].name

\* C8: the Observation profile run to its end on a table without a User
\* column leaves exactly one User column, categorical, with the empty text in
\* every row.
C8_UserColumnAdded ==
    (filter_list = ObservationFilters /\ ~HasCol(loaded, "User") /\ pc = "done") =>
        /\ Count(data, "User") = 1
        /\ TheColumn(data, "User").dtype = "category"
        /\ AllEmptyText(TheColumn(data, "User"))

C8_Witness ==
    /\ filter_list = ObservationFilters
    /\ ~HasCol(loaded, "User")
    /\ pc = "done"
    /\ Len(loaded) = 2
    /\ HasCol(data, "User")

\* the scales of the recoding, lowest code first
AnnoyScale ==
    <<"Extremely unpleasant", "Very unpleasant", "Unpleasant", "Slightly unpleasant",
      "Neutral", "Slightly pleasant", "Pleasant", "Very pleasant", "Extremely pleasant">>
IntensityScale ==
    <<"Not perceptible", "Very weak", "Weak", "Distinct", "Strong", "Very strong",
      "Extremely strong">>
HistoricalLabels == {"Moderate unpleasant", "Moderate pleasant", "Extremely pleasan"}
Numeral(n) == <<"-4", "-3", "-2", "-1", "0", "1", "2", "3", "4", "5", "6">>[n + 5]

\* C9: odour_literals_to_numbers turns, in an Annoy column, the nine scale
\* labels into "-4".."4", the empty text into "0" and the three historical
\* labels into "-3", "3", "4"; in an Intensity column the seven scale labels
\* into "0".."6" and the empty text into "0"; a historical label in an
\* Intensity or Duration column is left as it is.
C9_LiteralsRecoded ==
    RanOnTable("odour_literals_to_numbers") =>
        /\ Len(data) = Len(pre)
        /\ \A p \in 1..Len(pre) : \A r \in 1..NRows :
              LET s == pre[p].cells[r].s
                  c == data[p].cells[r]
              IN  /\ data[p].name = pre[p].name
                  /\ pre[p].name = "Annoy" =>
                        /\ \A j \in 1..9 : s = AnnoyScale[j] => c = Str(Numeral(j - 5))
                        /\ s = "" => c = Str("0")
                        /\ s = "Moderate unpleasant" => c = Str("-3")
                        /\ s = "Moderate pleasant" => c = Str("3")
                        /\ s = "Extremely pleasan" => c = Str("4")
                  /\ pre[p].name = "Intensity" =>
                        /\ \A j \in 1..7 : s = IntensityScale[j] => c = Str(Numeral(j - 1))
                        /\ s = "" => c = Str("0")
                        /\ s \in HistoricalLabels => c = Str(s)
                  /\ pre[p].name = "Duration" => (s \in HistoricalLabels => c = Str(s))

C9_Witness ==
    /\ RanOnTable("odour_literals_to_numbers")
    /\ \E p \in 1..Len(pre) :
          /\ pre[p].name = "Annoy"
          /\ pre[p].cells = <<Str("Slightly unpleasant"), Str("Moderate unpleasant"), Str("")>>
          /\ data[p].cells = <<Str("-1"), Str("-3"), Str("0")>>
    /\ \E p \in 1..Len(pre) :
          /\ pre[p].name = "Intensity"
          /\ pre[p].cells[1] = Str("Moderate unpleasant")
          /\ data[p].cells[1] = Str("Moderate unpleasant")

\* the minutes each duration literal stands for
DurationMinutes ==
    ("Punctual odor" :> 5) @@ ("Continuous odor throughout the day" :> 1440) @@
    ("Continuous odor in the last hour" :> 60) @@ ("" :> 0)
RecodedBefore(n) == \E j \in 1..(n - 1) : filter_list[j] = "odour_literals_to_numbers"

C11_RoundTripKeepsValues ==
    RanOnTable("type_casting") =>
        /\ Len(data) = Len(pre)
        /\ \A p \in 1..Len(pre) : \A r \in 1..NRows :
              data[p].cells[r] = pre[p].cells[r]

\* C12: fix_typos applied to a table fix_typos has corrected returns it with
\* the same column labels in the same order and the same cells, and the
\* second application does not raise.
C12_FixTyposIdempotent ==
    /\ pc # "raised"
    /\ (last = "fix_typos" /\ i = 2) => (given = "ocdata" /\ data = pre)
    /\ fix_typos(fix_typos(loaded).table) = fix_typos(loaded)

C12_Witness ==
    /\ last = "fix_typos"
    /\ i = 2
    /\ HasCol(loaded, "Intentity")
    /\ HasCol(loaded, "day")
    /\ HasCol(loaded, "Day")
    /\ HasCol(loaded, "time")
    /\ ~HasCol(data, "day")
    /\ Count(data, "Day") = 2

\* the text after the last dot of a file name, empty when it has no dot
Extension(p) == IF rfind(p, ".") = 0 THEN <<>> ELSE SubSeq(p, rfind(p, ".") + 1, Len(p))
EffectiveHint == IF hint = auto THEN Extension(file_name) ELSE hint

\* C13 (as claimed): when the effective type hint (the one given, or with
\* auto the extension of the file name, none included) is neither csv nor
\* xlsx nor xls, the construction ends with UnsupportedFormat, no file read
\* and no filter run.
C13_UnsupportedFormatRefused ==
    (pc # "load" /\ EffectiveHint \notin {csv, xlsx, xls}) =>
        /\ pc = "raised"
        /\ err = "UnsupportedFormat"
        /\ reads = "none"
        /\ last = ""

\* the texts odour_literals_to_numbers recognizes in a column, by label
RecognizedIn(name) ==
    CASE name = "Intensity" -> Range(IntensityScale) \cup {""}
      [] name = "Annoy" -> Range(AnnoyScale) \cup {""} \cup HistoricalLabels
      [] name = "Duration" -> DOMAIN DurationMinutes
      [] OTHER -> {}

\* C14: odour_literals_to_numbers does not raise; it leaves every column
\* label, every cell of a column other than Intensity, Annoy and Duration, and
\* every cell of these three whose text it does not recognize as it was.
C14_UnrecognizedKept ==
    RanOnTable("odour_literals_to_numbers") =>
        /\ pc # "raised"
        /\ Len(data) = Len(pre)
        /\ \A p \in 1..Len(pre) :
              /\ data[p].name = pre[p].name
              /\ \A r \in 1..NRows :
                    pre[p].cells[r].s \notin RecognizedIn(pre[p].name)
                        => data[p].cells[r] = pre[p].cells[r]

C14_Witness ==
    /\ RanOnTable("odour_literals_to_numbers")
    /\ \E p \in 1..Len(pre) :
          /\ pre[p].name = "Comments"
          /\ pre[p].cells = <<Str("Weak"), Str(""), Str("Moderate unpleasant")>>
          /\ data[p].cells = pre[p].cells
    /\ \E p \in 1..Len(pre) :
          /\ pre[p].name = "Annoy"
          /\ \E r \in 1..NRows :
                pre[p].cells[r] = Str("not known") /\ data[p].cells[r] = Str("not known")

\* C15: when the list holds a name that is no filter, at whatever position,
\* the provider raises UnknownFilter with no filter started and the table as
\* it was loaded.
C15_ValidationBeforeAnyFilter ==
    (~(Requested \subseteq FiveFilters) /\ pc # "init") =>
        /\ pc = "raised"
        /\ err = "UnknownFilter"
        /\ last = ""
        /\ data = loaded

C15_Witness ==
    /\ pc = "raised"
    /\ filter_list = <<"fix_typos", "bogus_filter">>
    /\ HasCol(loaded, "Intentity")
    /\ HasCol(data, "Intentity")

\* what the filter called name returns for the table t
Applied(name, t) ==
    CASE name = "fix_typos" -> fix_typos(t)
      [] name = "fix_userids" -> fix_userids(t)
      [] name = "odour_literals_to_numbers" -> odour_literals_to_numbers(t)
      [] name = "add_analyst_fields" -> add_analyst_fields(t)
      [] name = "type_casting" -> type_casting(t)

\* the table the filters of list from the j-th on make of the table t, each
\* working on the table the one before it left
RECURSIVE Composed(_, _, _)
Composed(t, list, j) ==
    IF j > Len(list) THEN t
    ELSE Composed(CHOOSE u \in {Applied(list[j], t).table} : TRUE, list, j + 1)

\* C16: when the construction of an Observation or Analysis dataset has
\* returned, the dataset's data is the table the profile's filters, applied
\* in order to the loaded table, produce.
C16_DataIsFilteredTable ==
    (pc = "done" /\ filter_list \in {ObservationFilters, AnalysisFilters}) =>
        data = Composed(loaded, filter_list, 1)

C16_Witness ==
    /\ pc = "done"
    /\ filter_list = ObservationFilters
    /\ HasCol(loaded, "Intentity")
    /\ HasCol(loaded, "Annoy")
    /\ ~HasCol(data, "Intentity")
    /\ HasCol(data, "User")
    /\ HasCol(data, "Typeoverride")
    /\ TheColumn(data, "Intensity").dtype = "int64"
    /\ TheColumn(loaded, "Annoy").cells[1] = Str("Slightly unpleasant")
    /\ TheColumn(data, "Annoy").cells[1] = Int64(-1)

\* the loaded table names its intensity column Intentity, has no Intensity
\* column, and the column holds scale labels and empty texts only
IntentityOnly ==
    /\ Count(loaded, "Intentity") = 1
    /\ ~HasCol(loaded, "Intensity")
    /\ \A r \in 1..NRows :
          TheColumn(loaded, "Intentity").cells[r].s \in Range(IntensityScale) \cup {""}

\* no other column of the loaded table holds a text the recoding does not
\* recognize or a time of day that is no duration
OthersRecognized ==
    \A p \in 1..Len(loaded) : \A r \in 1..NRows :
        /\ loaded[p].name \in {"Annoy", "Duration"} =>
              loaded[p].cells[r].s \in RecognizedIn(loaded[p].name)
        /\ loaded[p].name = "Time" => TimedeltaParses(loaded[p].cells[r])

\* the code of an intensity label, the empty text counting as not perceptible
IntensityCode(s) ==
    IF s = "" THEN 0 ELSE (CHOOSE j \in 1..7 : IntensityScale[j] = s) - 1

\* C17 (as claimed): in the Observation profile, over a table with an
\* Intentity column of known labels and no Intensity column, the run does not
\* end with MalformedInteger, whatever the other columns hold.
C17_NeverMalformedInteger ==
    (filter_list = ObservationFilters /\ IntentityOnly) =>
        ~(pc = "raised" /\ err = "MalformedInteger")

\* C17 (amended): in the Observation profile, over a table with an Intentity column
\* of known labels and no Intensity column, the Intentity label is gone once
\* fix_typos has run; the run does not end with MalformedInteger on account
\* of the intensity column and, the other columns being recognized, it does
\* not raise at all; when it has returned the Intensity column holds the
\* integer codes 0..6 of the loaded labels, row by row.
C17_TyposCorrectedFirst ==
    (filter_list = ObservationFilters /\ IntentityOnly) =>
        /\ i >= 1 => (~HasCol(data, "Intentity") /\ Count(data, "Intensity") = 1)
        /\ (pc = "raised" /\ err = "MalformedInteger") =>
              (HasCol(loaded, "Annoy") /\ ~OthersRecognized)
        /\ OthersRecognized => pc # "raised"
        /\ pc = "done" =>
              /\ TheColumn(data, "Intensity").dtype = "int64"
              /\ \A r \in 1..NRows :
                    /\ TheColumn(data, "Intensity").cells[r] =
                          Int64(IntensityCode(TheColumn(loaded, "Intentity").cells[r].s))
                    /\ TheColumn(data, "Intensity").cells[r].n \in 0..6

C17_Witness ==
    /\ filter_list = ObservationFilters
    /\ pc = "done"
    /\ IntentityOnly
    /\ TheColumn(loaded, "Intentity").cells =
          <<Str("Very strong"), Str("Extremely strong"), Str("")>>
    /\ TheColumn(data, "Intensity").cells = <<Int64(5), Int64(6), Int64(0)>>

\* the contents that are dictionary literals
DictLiterals == {"{'version': 'v1'}", "{}"}

\* C18 (as claimed): get ends in one of three ways: ConfigNotFound when the
\* folder has no .conf file of the name, ConfigMalformed when the file's
\* contents are not a dictionary literal, and otherwise a dictionary returned.
C18_ThreeOutcomes ==
    pc # "get" =>
        LET stem == splitext(basename(conf_name))[1]
        IN  IF stem \notin DOMAIN conf_files \/ conf_files[stem] = Absent
            THEN pc = "raised" /\ err = "ConfigNotFound"
            ELSE IF conf_files[stem] \in DictLiterals
            THEN pc = "done" /\ conf_out = "dict"
            ELSE pc = "raised" /\ err = "ConfigMalformed"

====
